---- MODULE Spec2Model ----
(***************************************************************************)
(* Model of src/src/commands/cmd_mount.rs (bcachefs mount helper):         *)
(* option classification, device/UUID resolution, the unlock fallback      *)
(* sequence and the mount call, as one sequential state machine.           *)
(*                                                                         *)
(* Strings.  An option string is a sequence of one-character strings.  A   *)
(* device specifier is a sequence of atoms <<kind, n>>: the two UUID       *)
(* markers, the colon, a device path (<<"dev", n>>) or a UUID text in one  *)
(* of its spellings (<<"uuid-...", id>>).  A path is a (possibly empty)    *)
(* sequence of atoms.                                                      *)
(***************************************************************************)
EXTENDS Integers, Sequences, FiniteSets, TLC

\* ------------------------------------------------------------------ bounds
\* number of device paths the world knows (paths 1..NumDevs)
NumDevs == 2
\* longest colon-joined device list given on the command line
MaxSegs == 2
\* most comma-separated tokens in an enumerated option string
MaxTokens == 3

\* ------------------------------------------------------- generic helpers
None == [some |-> FALSE, val |-> <<>>]
Some(v) == [some |-> TRUE, val |-> v]

Ok == [ok |-> TRUE, err |-> "", errno |-> 0]
Err(kind) == [ok |-> FALSE, err |-> kind, errno |-> 0]
ErrnoError(e) == [ok |-> FALSE, err |-> "MountFailed", errno |-> e]
Pending == [ok |-> FALSE, err |-> "pending", errno |-> 0]

Range(s) == {s[i] : i \in 1..Len(s)}

\* str::split: the pieces between the separators; always at least one piece
RECURSIVE SplitFrom(_, _, _, _)
SplitFrom(s, sep, i, cur) ==
    IF i > Len(s) THEN <<cur>>
    ELSE IF s[i] = sep THEN <<cur>> \o SplitFrom(s, sep, i + 1, <<>>)
    ELSE SplitFrom(s, sep, i + 1, Append(cur, s[i]))

Split(s, sep) == SplitFrom(s, sep, 1, <<>>)

\* [T]::join: the pieces with the separator between neighbours
RECURSIVE Join(_, _)
Join(parts, sep) ==
    IF Len(parts) = 0 THEN <<>>
    ELSE IF Len(parts) = 1 THEN parts[1]
    ELSE parts[1] \o <<sep>> \o Join(Tail(parts), sep)

\* bitwise OR of two naturals
BitOrAsPlus(a, b) == a + b

RECURSIVE BitOr(_, _)
BitOr(a, b) ==
    IF a = 0 THEN b
    ELSE IF b = 0 THEN a
    ELSE (IF (a % 2 = 1) \/ (b % 2 = 1) THEN 1 ELSE 0) + 2 * BitOr(a \div 2, b \div 2)

\* --------------------------------------------------- parse_mount_options
MS_RDONLY == 1
MS_NOSUID == 2
MS_NODEV == 4
MS_NOEXEC == 8
MS_SYNCHRONOUS == 16
MS_REMOUNT == 32
MS_MANDLOCK == 64
MS_DIRSYNC == 128
MS_NOATIME == 1024
MS_NODIRATIME == 2048
MS_RELATIME == 2097152
MS_STRICTATIME == 16777216
MS_LAZYTIME == 33554432

COMMA == ","

\* the keyword table of the match in parse_mount_options: <<keyword, flag>>
KeywordTable ==
    { << <<"d","i","r","s","y","n","c">>, MS_DIRSYNC >>,
      << <<"l","a","z","y","t","i","m","e">>, MS_LAZYTIME >>,
      << <<"m","a","n","d">>, MS_MANDLOCK >>,
      << <<"n","o","a","t","i","m","e">>, MS_NOATIME >>,
      << <<"n","o","d","e","v">>, MS_NODEV >>,
      << <<"n","o","d","i","r","a","t","i","m","e">>, MS_NODIRATIME >>,
      << <<"n","o","e","x","e","c">>, MS_NOEXEC >>,
      << <<"n","o","s","u","i","d">>, MS_NOSUID >>,
      << <<"r","e","l","a","t","i","m","e">>, MS_RELATIME >>,
      << <<"r","e","m","o","u","n","t">>, MS_REMOUNT >>,
      << <<"r","o">>, MS_RDONLY >>,
      << <<"r","w">>, 0 >>,
      << <<"s","t","r","i","c","t","a","t","i","m","e">>, MS_STRICTATIME >>,
      << <<"s","y","n","c">>, MS_SYNCHRONOUS >>,
      << <<>>, 0 >> }

Keywords == {e[1] : e \in KeywordTable}

\* the closure of .map(): Left(flag) for a table entry, Right(o) otherwise
ClassifyNoEmptyArm(o) ==
    IF o \in Keywords /\ o # <<>>
    THEN [left |-> TRUE, flag |-> (CHOOSE e \in KeywordTable : e[1] = o)[2], opt |-> <<>>]
    ELSE [left |-> FALSE, flag |-> 0, opt |-> o]

Classify(o) ==
    IF o \in Keywords
    THEN [left |-> TRUE, flag |-> (CHOOSE e \in KeywordTable : e[1] = o)[2], opt |-> <<>>]
    ELSE [left |-> FALSE, flag |-> 0, opt |-> o]

\* the .fold(): accumulator (opts, flags) over the classified tokens, in order
RECURSIVE FoldOptions(_, _, _, _)
FoldOptions(toks, i, opts, flags) ==
    IF i > Len(toks) THEN [opts |-> opts, flags |-> flags]
    ELSE LET next == Classify(toks[i])
         IN IF next.left
            THEN FoldOptions(toks, i + 1, opts, BitOr(flags, next.flag))
            ELSE FoldOptions(toks, i + 1, Append(opts, next.opt), flags)

\* parse_mount_options(options) -> (Option<String>, c_ulong)
ParseMountOptions(options) ==
    LET acc == FoldOptions(Split(options, COMMA), 1, <<>>, 0)
    IN [data  |-> IF Len(acc.opts) = 0 THEN None ELSE Some(Join(acc.opts, COMMA)),
        flags |-> acc.flags]

\* ------------------------------------------------------------ the world
Uuids == {1, 2}
Errnos == {1, 2}

PFX_UUID == <<"UUID=", 0>>
PFX_OLD_UUID == <<"OLD_BLKID_UUID=", 0>>
COLON == <<":", 0>>
DevPath(n) == << <<"dev", n>> >>
Paths == {DevPath(n) : n \in 1..NumDevs}

NoSb == [ok |-> FALSE, dev |-> 0, uuid |-> 0, locked |-> FALSE]
Sb(n, u, l) == [ok |-> TRUE, dev |-> n, uuid |-> u, locked |-> l]

VARIABLES
    opt,                        \* the parsed Cli
    udev,                       \* what a udev block-device scan returns
    disk,                       \* what a superblock read of path n returns
    keyring,                    \* has a key for the filesystem been loaded
    pc,                         \* position in cmd_mount / cmd_mount_inner
    devices,                    \* the device string handed to mount()
    block_devices_to_mount,     \* the superblock handles
    bcache_fs_uuid,             \* devs_str_sbs_from_device's local
    fallback_to_unlock_policy,  \* cmd_mount_inner's local
    ret,                        \* cmd_mount_inner's result
    exitCode,                   \* cmd_mount's return value, -1 before it
    logLevel,                   \* log::set_max_level
    probes,                     \* history: paths read_super_silent was called on
    scans,                      \* history: number of udev scans
    keyOps,                     \* history: calls into crate::key
    mountCalls,                 \* history: libc::mount calls with their arguments
    parsed                      \* result cell of the option classifier

vars == <<opt, udev, disk, keyring, pc, devices, block_devices_to_mount,
          bcache_fs_uuid, fallback_to_unlock_policy, ret, exitCode, logLevel,
          probes, scans, keyOps, mountCalls, parsed>>

\* --------------------------------------------------------- string helpers
StartsWith(s, atom) == Len(s) >= 1 /\ s[1] = atom
Contains(s, atom) == \E i \in 1..Len(s) : s[i] = atom

\* str::replacen(pat, "", 1): the string without the first occurrence of pat
Replacen1(s, atom) ==
    IF ~Contains(s, atom) THEN s
    ELSE LET i == CHOOSE k \in 1..Len(s) :
                      s[k] = atom /\ \A j \in 1..(k - 1) : s[j] # atom
         IN SubSeq(s, 1, i - 1) \o SubSeq(s, i + 1, Len(s))

\* Uuid::parse_str: the hyphenated and the simple spelling are accepted
UuidParseStrLenient(text) ==
    IF Len(text) >= 1 /\ text[1][1] \in {"uuid-hyphenated", "uuid-simple", "uuid-malformed"}
    THEN [ok |-> TRUE, uuid |-> text[1][2]]
    ELSE [ok |-> FALSE, uuid |-> 0]

UuidParseStr(text) ==
    IF Len(text) = 1 /\ text[1][1] \in {"uuid-hyphenated", "uuid-simple"}
    THEN [ok |-> TRUE, uuid |-> text[1][2]]
    ELSE [ok |-> FALSE, uuid |-> 0]

\* Uuid::to_string: always the hyphenated spelling
UuidToString(u) == << <<"uuid-hyphenated", u>> >>

\* ------------------------------------------------------ superblock probe
\* read_super_silent(path): only a path that names a readable bcachefs
\* device yields a handle
ReadSuperSilent(path) ==
    IF path \in Paths THEN disk[path[1][2]] ELSE NoSb

\* the device nodes of a scan: dev.devnode() is None for entry 0
DevNodes(scan) ==
    LET withNode == SelectSeq(scan, LAMBDA d : d # 0)
    IN [i \in 1..Len(withNode) |-> DevPath(withNode[i])]

\* the filter on the probe result in get_devices_by_uuid's iterator chain
ProbeKeptIgnoringUuid(pair, uuid) == pair[2].ok

ProbeKept(pair, uuid) == pair[2].ok /\ pair[2].uuid = uuid

\* get_devices_by_uuid(uuid) -> Result<Vec<(PathBuf, bch_sb_handle)>>
GetDevicesByUuidAbortOnBadProbe(uuid) ==
    IF ~udev.ok THEN [res |-> Err("EnumerationFailed"), devs |-> <<>>, probed |-> <<>>]
    ELSE LET nodes == DevNodes(udev.scan)
             read == [i \in 1..Len(nodes) |-> <<nodes[i], ReadSuperSilent(nodes[i])>>]
         IN IF \E i \in 1..Len(read) : ~read[i][2].ok
            THEN [res |-> Err("ProbeFailed"), devs |-> <<>>, probed |-> nodes]
            ELSE [res |-> Ok,
                  devs |-> SelectSeq(read, LAMBDA p : ProbeKept(p, uuid)),
                  probed |-> nodes]

GetDevicesByUuid(uuid) ==
    IF ~udev.ok THEN [res |-> Err("EnumerationFailed"), devs |-> <<>>, probed |-> <<>>]
    ELSE LET nodes == DevNodes(udev.scan)
             read == [i \in 1..Len(nodes) |-> <<nodes[i], ReadSuperSilent(nodes[i])>>]
         IN [res |-> Ok,
             devs |-> SelectSeq(read, LAMBDA p : ProbeKept(p, uuid)),
             probed |-> nodes]

\* the scan loop of get_uuid_for_dev_node: the nodes equal to the wanted
\* path are read, in scan order, up to the first one that reads well
RECURSIVE ScanForNode(_, _, _)
ScanForNode(nodes, device, i) ==
    IF i > Len(nodes)
    THEN [res |-> Err("NotFound"), uuid |-> 0, probed |-> <<>>]
    ELSE IF nodes[i] = device
         THEN LET sb == ReadSuperSilent(nodes[i])
              IN IF sb.ok
                 THEN [res |-> Ok, uuid |-> sb.uuid, probed |-> <<nodes[i]>>]
                 ELSE LET rest == ScanForNode(nodes, device, i + 1)
                      IN [rest EXCEPT !.probed = <<nodes[i]>> \o @]
         ELSE ScanForNode(nodes, device, i + 1)

\* get_uuid_for_dev_node(device) -> Result<Uuid>
GetUuidForDevNode(device) ==
    IF ~udev.ok THEN [res |-> Err("EnumerationFailed"), uuid |-> 0, probed |-> <<>>]
    ELSE ScanForNode(DevNodes(udev.scan), device, 1)

\* devs_str_sbs_from_uuid(uuid: String) -> Result<(String, Vec<bch_sb_handle>)>
DevsStrSbsFromUuid(text) ==
    LET id == UuidParseStr(text)
    IN IF ~id.ok
       THEN [res |-> Err("InvalidIdentity"), devs_str |-> <<>>, sbs |-> <<>>,
             probed |-> <<>>, scanned |-> 0]
       ELSE LET got == GetDevicesByUuid(id.uuid)
            IN IF ~got.res.ok
               THEN [res |-> got.res, devs_str |-> <<>>, sbs |-> <<>>,
                     probed |-> <<>>, scanned |-> 1]
               ELSE [res |-> Ok,
                     devs_str |-> Join([i \in 1..Len(got.devs) |-> got.devs[i][1]], COLON),
                     sbs |-> [i \in 1..Len(got.devs) |-> got.devs[i][2]],
                     probed |-> got.probed, scanned |-> 1]

\* -------------------------------------------------------- initial states
Policies == {"Fail", "Wait", "Ask"}
Verbosity == {0, 1, 2}

UuidTexts ==
    {<<"uuid-hyphenated", u>> : u \in Uuids}
        \cup {<<"uuid-simple", 1>>, <<"uuid-malformed", 0>>}

\* UUID=<text>, OLD_BLKID_UUID=<text>, and a UUID= string that holds a colon
UuidSpecs ==
    {<<PFX_UUID, t>> : t \in UuidTexts}
        \cup {<<PFX_OLD_UUID, t>> : t \in UuidTexts}
        \cup {<<PFX_UUID, <<"uuid-hyphenated", 1>>, COLON, <<"dev", 1>> >>}

\* a single path: empty, unknown to the world (dev 0), or one of the paths
BareSpecs == {<<>>} \cup {DevPath(n) : n \in 0..NumDevs}

\* colon-joined lists of 2..MaxSegs segments; a segment may be empty
Segments == {<<>>} \cup Paths
ListSpecs ==
    {Join(segs, COLON) : segs \in UNION {[1..k -> Segments] : k \in 2..MaxSegs}}

\* udev scans: no device twice; entry 0 is a device without a device node
ScanOrders ==
    {s \in UNION {[1..k -> 0..NumDevs] : k \in 0..(NumDevs + 1)} :
        \A i, j \in 1..Len(s) : i # j => s[i] # s[j]}
Scans == {[ok |-> FALSE, scan |-> <<>>]} \cup {[ok |-> TRUE, scan |-> s] : s \in ScanOrders}

Disks(lockedValues) ==
    [1..NumDevs -> {NoSb} \cup {Sb(0, u, l) : u \in Uuids, l \in lockedValues}]
WithDev(d) == [n \in 1..NumDevs |-> IF d[n].ok THEN [d[n] EXCEPT !.dev = n] ELSE NoSb]

FullScan == [ok |-> TRUE, scan |-> [i \in 1..NumDevs |-> i]]

\* option-string pool: every keyword, the empty token and unknown tokens
TokenPool ==
    Keywords \cup {<<"x">>, <<"r">>, <<"r","o","x">>, <<"a","c","l">>}
OptionStrings ==
    {Join(toks, COMMA) : toks \in UNION {[1..k -> TokenPool] : k \in 1..MaxTokens}}

InitLocals ==
    /\ keyring = FALSE
    /\ devices = <<>>
    /\ block_devices_to_mount = <<>>
    /\ bcache_fs_uuid = 0
    /\ fallback_to_unlock_policy = FALSE
    /\ ret = Pending
    /\ exitCode = -1
    /\ logLevel = "unset"
    /\ probes = <<>>
    /\ scans = 0
    /\ keyOps = <<>>
    /\ mountCalls = <<>>
    /\ parsed = [data |-> None, flags |-> 0]

\* every key-file / policy / mount-point / verbosity choice, plain world
InitTails ==
    /\ opt \in [dev : {<<PFX_UUID, <<"uuid-hyphenated", 1>> >>, DevPath(1),
                       Join(<<DevPath(1), DevPath(NumDevs)>>, COLON)},
                passphrase_file : {None, Some(<<"keyfile">>)},
                unlock_policy : Policies,
                mountpoint : {None, Some(<<>>), Some(<<"/mnt">>)},
                options : {<<>>, <<"r","o",",","x">>},
                verbose : Verbosity]
    /\ udev = FullScan
    /\ \E d \in Disks(BOOLEAN) : disk = WithDev(d)

\* every UUID and bare-path specifier against every scan of every world
InitScans ==
    /\ opt \in [dev : UuidSpecs \cup BareSpecs,
                passphrase_file : {None},
                unlock_policy : {"Ask"},
                mountpoint : {None},
                options : {<<>>},
                verbose : {0}]
    /\ udev \in Scans
    /\ \E d \in Disks({FALSE}) : disk = WithDev(d)

\* every colon-joined list against every world
InitLists ==
    /\ opt \in [dev : ListSpecs,
                passphrase_file : {None},
                unlock_policy : {"Ask"},
                mountpoint : {None, Some(<<"/mnt">>)},
                options : {<<>>},
                verbose : {0}]
    /\ udev \in {FullScan, [ok |-> FALSE, scan |-> <<>>]}
    /\ \E d \in Disks(BOOLEAN) : disk = WithDev(d)

Init ==
    /\ pc = "cmd_mount"
    /\ InitLocals
    /\ (InitTails \/ InitScans \/ InitLists)

\* ------------------------------------------------------------- cmd_mount
\* cmd_mount up to the call of cmd_mount_inner: the log level from -v
CmdMountBegin ==
    /\ pc = "cmd_mount"
    /\ IF opt.verbose = 0 THEN logLevel' = "Warn" /\ pc' = "start"
       ELSE IF opt.verbose = 1 THEN logLevel' = "Trace" /\ pc' = "start"
       ELSE logLevel' = logLevel /\ pc' = "panicked"        \* todo!()
    /\ UNCHANGED <<opt, udev, disk, keyring, devices, block_devices_to_mount,
                   bcache_fs_uuid, fallback_to_unlock_policy, ret, exitCode,
                   probes, scans, keyOps, mountCalls, parsed>>

\* ------------------------------------------------- cmd_mount_inner: resolve
\* the let (devices, block_devices_to_mount) = ...? of a devs_str_sbs_from_uuid call
FinishFromUuid(r) ==
    /\ probes' = probes \o r.probed
    /\ scans' = scans + r.scanned
    /\ IF r.res.ok
       THEN /\ devices' = r.devs_str
            /\ block_devices_to_mount' = r.sbs
            /\ ret' = ret
            /\ pc' = "check_empty"
       ELSE /\ ret' = r.res
            /\ pc' = "returned"
            /\ UNCHANGED <<devices, block_devices_to_mount>>

ResolveUuid ==
    /\ pc = "start"
    /\ StartsWith(opt.dev, PFX_UUID)
    /\ FinishFromUuid(DevsStrSbsFromUuid(Replacen1(opt.dev, PFX_UUID)))
    /\ UNCHANGED <<opt, udev, disk, keyring, bcache_fs_uuid, fallback_to_unlock_policy,
                   exitCode, logLevel, keyOps, mountCalls, parsed>>

ResolveOldUuid ==
    /\ pc = "start"
    /\ ~StartsWith(opt.dev, PFX_UUID)
    /\ StartsWith(opt.dev, PFX_OLD_UUID)
    /\ FinishFromUuid(DevsStrSbsFromUuid(Replacen1(opt.dev, PFX_OLD_UUID)))
    /\ UNCHANGED <<opt, udev, disk, keyring, bcache_fs_uuid, fallback_to_unlock_policy,
                   exitCode, logLevel, keyOps, mountCalls, parsed>>

IsList(dev) ==
    /\ ~StartsWith(dev, PFX_UUID)
    /\ ~StartsWith(dev, PFX_OLD_UUID)
    /\ Contains(dev, COLON)

IsBare(dev) ==
    /\ ~StartsWith(dev, PFX_UUID)
    /\ ~StartsWith(dev, PFX_OLD_UUID)
    /\ ~Contains(dev, COLON)

\* opt.dev.contains(":"): let mut block_devices_to_mount = Vec::new()
ResolveList ==
    /\ pc = "start"
    /\ IsList(opt.dev)
    /\ block_devices_to_mount' = <<>>
    /\ pc' = "list_loop"
    /\ UNCHANGED <<opt, udev, disk, keyring, devices, bcache_fs_uuid,
                   fallback_to_unlock_policy, ret, exitCode, logLevel,
                   probes, scans, keyOps, mountCalls, parsed>>

\* the last iteration leaves the loop with (opt.dev, block_devices_to_mount)
ListDevicesTruncated(dev, sbs) == Join(SubSeq(Split(dev, COLON), 1, 1), COLON)

ListDevices(dev, sbs) == dev

\* the ? on read_super_silent(&dev) in the loop
ListProbeFailureSwallowed(sb) == FALSE

ListProbeFailed(sb) == ~sb.ok

\* one iteration of for dev in opt.dev.split(':')
ProbeListSegment ==
    /\ pc = "list_loop"
    /\ LET segs == Split(opt.dev, COLON)
           i == Len(block_devices_to_mount) + 1
           sb == ReadSuperSilent(segs[i])
       IN /\ probes' = Append(probes, segs[i])
          /\ IF ListProbeFailed(sb)
             THEN /\ ret' = Err("ProbeFailed")
                  /\ pc' = "returned"
                  /\ UNCHANGED <<devices, block_devices_to_mount>>
             ELSE /\ block_devices_to_mount' = Append(block_devices_to_mount, sb)
                  /\ ret' = ret
                  /\ IF i = Len(segs)
                     THEN /\ devices' = ListDevices(opt.dev, block_devices_to_mount')
                          /\ pc' = "check_empty"
                     ELSE /\ devices' = devices
                          /\ pc' = "list_loop"
    /\ UNCHANGED <<opt, udev, disk, keyring, bcache_fs_uuid, fallback_to_unlock_policy,
                   exitCode, logLevel, scans, keyOps, mountCalls, parsed>>

\* devs_str_sbs_from_device: let bcache_fs_uuid = get_uuid_for_dev_node(device)?
ResolveDevice ==
    /\ pc = "start"
    /\ IsBare(opt.dev)
    /\ LET r == GetUuidForDevNode(opt.dev)
       IN /\ probes' = probes \o r.probed
          /\ scans' = scans + 1
          /\ IF r.res.ok
             THEN /\ bcache_fs_uuid' = r.uuid
                  /\ ret' = ret
                  /\ pc' = "from_device"
             ELSE /\ bcache_fs_uuid' = bcache_fs_uuid
                  /\ ret' = r.res
                  /\ pc' = "returned"
    /\ UNCHANGED <<opt, udev, disk, keyring, devices, block_devices_to_mount,
                   fallback_to_unlock_policy, exitCode, logLevel, keyOps,
                   mountCalls, parsed>>

\* devs_str_sbs_from_device: devs_str_sbs_from_uuid(bcache_fs_uuid.to_string())
ResolveDeviceUuid ==
    /\ pc = "from_device"
    /\ FinishFromUuid(DevsStrSbsFromUuid(UuidToString(bcache_fs_uuid)))
    /\ UNCHANGED <<opt, udev, disk, keyring, bcache_fs_uuid, fallback_to_unlock_policy,
                   exitCode, logLevel, keyOps, mountCalls, parsed>>

\* block_devices_to_mount.len() == 0
NoDeviceFoundNever(sbs) == FALSE

NoDeviceFound(sbs) == Len(sbs) = 0

\* if block_devices_to_mount.len() == 0 { Err(...)? }
CheckEmpty ==
    /\ pc = "check_empty"
    /\ IF NoDeviceFound(block_devices_to_mount)
       THEN ret' = Err("NotFound") /\ pc' = "returned"
       ELSE ret' = ret /\ pc' = "check_locked"
    /\ UNCHANGED <<opt, udev, disk, keyring, devices, block_devices_to_mount,
                   bcache_fs_uuid, fallback_to_unlock_policy, exitCode, logLevel,
                   probes, scans, keyOps, mountCalls, parsed>>

\* -------------------------------------------------- cmd_mount_inner: unlock
\* bch2_sb_is_encrypted_and_locked(block_devices_to_mount[0].sb)
IsEncryptedAndLockedLast(sbs) == sbs[Len(sbs)].locked

IsEncryptedAndLocked(sbs) == sbs[1].locked

CheckLocked ==
    /\ pc = "check_locked"
    /\ pc' = IF IsEncryptedAndLocked(block_devices_to_mount)
             THEN "passphrase_file" ELSE "mount_step"
    /\ UNCHANGED <<opt, udev, disk, keyring, devices, block_devices_to_mount,
                   bcache_fs_uuid, fallback_to_unlock_policy, ret, exitCode,
                   logLevel, probes, scans, keyOps, mountCalls, parsed>>

\* the value of the let fallback_to_unlock_policy = ... expression:
\* fileOk is the result of key::read_from_passphrase_file when it was called
FallbackOnlyWithoutFile(passphrase_file, fileOk) == ~passphrase_file.some

FallbackAlways(passphrase_file, fileOk) == TRUE

FallbackToUnlockPolicy(passphrase_file, fileOk) ==
    IF passphrase_file.some THEN ~fileOk ELSE TRUE

\* if let Some(passphrase_file) = &opt.passphrase_file { match read_from_passphrase_file .. }
PassphraseFile ==
    /\ pc = "passphrase_file"
    /\ IF opt.passphrase_file.some
       THEN \E fileOk \in BOOLEAN :
               /\ keyOps' = Append(keyOps, [op |-> "passphrase_file", arg |-> "",
                                            outcome |-> IF fileOk THEN "ok" ELSE "err"])
               /\ keyring' = (keyring \/ fileOk)
               /\ fallback_to_unlock_policy' =
                      FallbackToUnlockPolicy(opt.passphrase_file, fileOk)
       ELSE /\ fallback_to_unlock_policy' =
                      FallbackToUnlockPolicy(opt.passphrase_file, FALSE)
            /\ UNCHANGED <<keyOps, keyring>>
    /\ pc' = "unlock_policy"
    /\ UNCHANGED <<opt, udev, disk, devices, block_devices_to_mount, bcache_fs_uuid,
                   ret, exitCode, logLevel, probes, scans, mountCalls, parsed>>

\* key::apply_key_unlocking_policy: Fail fails, Wait blocks until a key is
\* available, Ask prompts and fails when no key can be derived
ApplyKeyUnlockingPolicy(policy, askOk) ==
    IF policy = "Fail" THEN "err"
    ELSE IF policy = "Wait" THEN "blocked"
    ELSE IF askOk THEN "ok" ELSE "err"

\* the ? on key::apply_key_unlocking_policy(..)
PolicyErrorIgnored(out) == FALSE

PolicyErrorPropagates(out) == out = "err"

\* if fallback_to_unlock_policy { key::apply_key_unlocking_policy(..)?; }
UnlockPolicyStep ==
    /\ pc = "unlock_policy"
    /\ IF fallback_to_unlock_policy
       THEN \E askOk \in BOOLEAN :
               LET out == ApplyKeyUnlockingPolicy(opt.unlock_policy, askOk)
               IN /\ keyOps' = Append(keyOps, [op |-> "unlock_policy",
                                               arg |-> opt.unlock_policy,
                                               outcome |-> out])
                  /\ keyring' = (keyring \/ out = "ok")
                  /\ ret' = IF PolicyErrorPropagates(out)
                            THEN Err("LockedFilesystem") ELSE ret
                  /\ pc' = IF PolicyErrorPropagates(out) THEN "returned"
                           ELSE IF out = "blocked" THEN "waiting"
                           ELSE "mount_step"
       ELSE /\ pc' = "mount_step"
            /\ UNCHANGED <<keyOps, keyring, ret>>
    /\ UNCHANGED <<opt, udev, disk, devices, block_devices_to_mount, bcache_fs_uuid,
                   fallback_to_unlock_policy, exitCode, logLevel, probes, scans,
                   mountCalls, parsed>>

\* the Wait policy returns: a key became available through another channel
WaitForUnlock ==
    /\ pc = "waiting"
    /\ keyOps' = [keyOps EXCEPT ![Len(keyOps)].outcome = "ok"]
    /\ keyring' = TRUE
    /\ pc' = "mount_step"
    /\ UNCHANGED <<opt, udev, disk, devices, block_devices_to_mount, bcache_fs_uuid,
                   fallback_to_unlock_policy, ret, exitCode, logLevel, probes, scans,
                   mountCalls, parsed>>

\* --------------------------------------------------- cmd_mount_inner: mount
\* mount_inner: libc::mount is called once; status is 0 or the errno of the failure
MountInnerRetry(src, target, fstype, mountflags, data, status) ==
    LET call == [src |-> src, target |-> target, fstype |-> fstype,
                 mountflags |-> mountflags, data |-> data]
    IN [calls |-> IF status = 0 THEN <<call>> ELSE <<call, call>>,
        res |-> IF status = 0 THEN Ok ELSE ErrnoError(status)]

MountInner(src, target, fstype, mountflags, data, status) ==
    [calls |-> << [src |-> src, target |-> target, fstype |-> fstype,
                   mountflags |-> mountflags, data |-> data] >>,
     res |-> IF status = 0 THEN Ok ELSE ErrnoError(status)]

\* mount(device, target, options)
Mount(device, target, options, status) ==
    LET p == ParseMountOptions(options)
    IN MountInner(device, target, "bcachefs", p.flags, p.data, status)

\* if let Some(mountpoint) = opt.mountpoint
HasMountpointAlways(mountpoint) == TRUE

HasMountpoint(mountpoint) == mountpoint.some

MountStep ==
    /\ pc = "mount_step"
    /\ IF HasMountpoint(opt.mountpoint)
       THEN \E status \in {0} \cup Errnos :
               LET m == Mount(devices, opt.mountpoint.val, opt.options, status)
               IN /\ mountCalls' = mountCalls \o m.calls
                  /\ ret' = m.res
       ELSE /\ mountCalls' = mountCalls
            /\ ret' = Ok
    /\ pc' = "returned"
    /\ UNCHANGED <<opt, udev, disk, keyring, devices, block_devices_to_mount,
                   bcache_fs_uuid, fallback_to_unlock_policy, exitCode, logLevel,
                   probes, scans, keyOps, parsed>>

\* cmd_mount: if let Err(e) = cmd_mount_inner(opt) { 1 } else { 0 }
ExitCodeAlwaysZero(r) == 0

ExitCodeOf(r) == IF r.ok THEN 0 ELSE 1

CmdMountExit ==
    /\ pc = "returned"
    /\ exitCode' = ExitCodeOf(ret)
    /\ pc' = "exit"
    /\ UNCHANGED <<opt, udev, disk, keyring, devices, block_devices_to_mount,
                   bcache_fs_uuid, fallback_to_unlock_policy, ret, logLevel,
                   probes, scans, keyOps, mountCalls, parsed>>

Next ==
    \/ CmdMountBegin
    \/ ResolveUuid
    \/ ResolveOldUuid
    \/ ResolveList
    \/ ProbeListSegment
    \/ ResolveDevice
    \/ ResolveDeviceUuid
    \/ CheckEmpty
    \/ CheckLocked
    \/ PassphraseFile
    \/ UnlockPolicyStep
    \/ WaitForUnlock
    \/ MountStep
    \/ CmdMountExit

Spec == Init /\ [][Next]_vars

\* ------------------------------------------- the option classifier alone
InitParse ==
    /\ pc = "parse"
    /\ InitLocals
    /\ opt \in [dev : {<<>>},
                passphrase_file : {None},
                unlock_policy : {"Ask"},
                mountpoint : {None},
                options : OptionStrings,
                verbose : {0}]
    /\ udev = FullScan
    /\ disk = [n \in 1..NumDevs |-> NoSb]

\* let (data, mountflags) = parse_mount_options(options)
ParseStep ==
    /\ pc = "parse"
    /\ parsed' = ParseMountOptions(opt.options)
    /\ pc' = "parsed"
    /\ UNCHANGED <<opt, udev, disk, keyring, devices, block_devices_to_mount,
                   bcache_fs_uuid, fallback_to_unlock_policy, ret, exitCode,
                   logLevel, probes, scans, keyOps, mountCalls>>

NextParse == ParseStep

SpecParse == InitParse /\ [][NextParse]_vars

\* ================================================================ claims
Count(seq, op) == Cardinality({i \in 1..Len(seq) : seq[i].op = op})
FileCalls == Count(keyOps, "passphrase_file")
PolicyCalls == Count(keyOps, "unlock_policy")
FileFailed == \E i \in 1..Len(keyOps) :
                  keyOps[i].op = "passphrase_file" /\ keyOps[i].outcome = "err"
FileSucceeded == \E i \in 1..Len(keyOps) :
                     keyOps[i].op = "passphrase_file" /\ keyOps[i].outcome = "ok"

ResolveErrors == {"InvalidIdentity", "EnumerationFailed", "ProbeFailed", "NotFound"}
Returned == pc \in {"returned", "exit"}
\* the resolution succeeded and the check of the first superblock was made
PastLockCheck ==
    /\ pc \in {"passphrase_file", "unlock_policy", "waiting", "mount_step",
               "returned", "exit"}
    /\ ret.err \notin ResolveErrors
\* the unlock decision is complete
PastUnlock ==
    /\ pc \in {"waiting", "mount_step", "returned", "exit"}
    /\ ret.err \notin ResolveErrors
FirstLocked == Len(block_devices_to_mount) > 0 /\ block_devices_to_mount[1].locked

\* C1: with the first superblock encrypted and locked, and no passphrase file
\* or a failed passphrase-file attempt, the unlock policy is applied exactly
\* once; a passphrase-file failure is not fatal (the policy step follows it);
\* the passphrase file is tried at most once.
C1_PolicyOnceOnFallback ==
    /\ FileCalls <= 1
    /\ PolicyCalls <= 1
    /\ (PastUnlock /\ FirstLocked /\ (~opt.passphrase_file.some \/ FileFailed))
           => PolicyCalls = 1
    /\ FileFailed => (pc = "unlock_policy" /\ ret = Pending) \/ PolicyCalls = 1

C1_Witness ==
    /\ FileFailed
    /\ PolicyCalls = 1
    /\ opt.unlock_policy = "Ask"
    /\ pc = "returned"
    /\ ret.ok

\* C2: when the passphrase file unlocks the filesystem, a key is loaded, the
\* unlock policy is never applied (whatever the policy, Fail included) and
\* the attempt goes on to the mount step: it ends Ok or with the mount's error.
C2_FileSuccessSkipsPolicy ==
    FileSucceeded =>
        /\ keyring
        /\ PolicyCalls = 0
        /\ pc \in {"unlock_policy", "mount_step", "returned", "exit"}
        /\ Returned => (ret.ok \/ ret.err = "MountFailed")

C2_Witness ==
    /\ FileSucceeded
    /\ opt.unlock_policy = "Fail"
    /\ pc = "returned"
    /\ ret.ok
    /\ Len(mountCalls) = 1

\* C3: when the first superblock is not encrypted-and-locked, no key
\* operation is made (no passphrase-file attempt, no policy), whatever file
\* and policy were given, and the attempt goes on to the mount step.
C3_UnlockedNoKeyOps ==
    (Len(block_devices_to_mount) > 0 /\ ~block_devices_to_mount[1].locked) =>
        /\ keyOps = <<>>
        /\ ~keyring
        /\ pc \notin {"passphrase_file", "unlock_policy", "waiting"}
        /\ (Returned /\ ret.err \notin ResolveErrors)
               => (ret.ok \/ ret.err = "MountFailed")

C3_Witness ==
    /\ Len(block_devices_to_mount) > 0
    /\ ~block_devices_to_mount[1].locked
    /\ opt.passphrase_file.some
    /\ opt.unlock_policy = "Fail"
    /\ pc = "returned"
    /\ ret.ok
    /\ Len(mountCalls) = 1

NodesWithUuid(u) ==
    {n \in Range(udev.scan) \ {0} : disk[n].ok /\ disk[n].uuid = u}

\* C5: for a single bare path whose direct probe succeeds with identity U,
\* when at least one enumerated device carries U the resolution succeeds,
\* whether or not the path itself is among the enumerated device nodes.
C5_BarePathProbedDirectly ==
    (/\ IsBare(opt.dev)
     /\ ReadSuperSilent(opt.dev).ok
     /\ udev.ok
     /\ NodesWithUuid(ReadSuperSilent(opt.dev).uuid) # {})
        => /\ Returned => ret.err \notin ResolveErrors
           /\ pc = "check_empty" =>
                  {block_devices_to_mount[i].dev : i \in 1..Len(block_devices_to_mount)}
                      = NodesWithUuid(ReadSuperSilent(opt.dev).uuid)

\* C6: a colon-joined list of N segments whose probes all succeed yields N
\* handles, the i-th being that of the i-th segment, the device string is
\* passed on unchanged, and no device enumeration is made on this path.
C6_ListInOrderNoScan ==
    IsList(opt.dev) =>
        /\ scans = 0
        /\ LET segs == Split(opt.dev, COLON)
           IN ((\A i \in 1..Len(segs) : ReadSuperSilent(segs[i]).ok)
                   /\ pc \notin {"cmd_mount", "start", "list_loop", "panicked"})
              => /\ Len(block_devices_to_mount) = Len(segs)
                 /\ \A i \in 1..Len(segs) :
                        /\ block_devices_to_mount[i] = disk[segs[i][1][2]]
                        /\ block_devices_to_mount[i].dev = segs[i][1][2]
                 /\ devices = opt.dev
                 /\ probes = segs

C6_Witness ==
    /\ IsList(opt.dev)
    /\ pc = "check_empty"
    /\ Len(block_devices_to_mount) = 2
    /\ block_devices_to_mount[1].dev > block_devices_to_mount[2].dev
    /\ scans = 0

\* C7 as stated: after a successful resolution, on any specifier path, all
\* member superblock handles report the same UUID.
C7_OneIdentityAllPaths ==
    (pc \in {"check_empty", "check_locked"}) =>
        \A i, j \in 1..Len(block_devices_to_mount) :
            block_devices_to_mount[i].uuid = block_devices_to_mount[j].uuid

\* C7 amended: after a successful resolution on the UUID-prefix path or the
\* single-bare-path path, all member superblock handles report the same UUID
\* (on the colon-joined list path the identities are not compared).
C7_OneIdentityScanPaths ==
    (~IsList(opt.dev) /\ pc \notin {"cmd_mount", "start", "from_device", "panicked"}) =>
        \A i, j \in 1..Len(block_devices_to_mount) :
            block_devices_to_mount[i].uuid = block_devices_to_mount[j].uuid

C7_Witness ==
    /\ IsBare(opt.dev)
    /\ pc = "check_locked"
    /\ Len(block_devices_to_mount) = 2

\* the tokens of an option string, read off the positions of its commas
CommaPositions(s) == {i \in 1..Len(s) : s[i] = COMMA}
NthComma(s, k) ==
    IF k = 0 THEN 0
    ELSE IF k > Cardinality(CommaPositions(s)) THEN Len(s) + 1
    ELSE CHOOSE p \in CommaPositions(s) :
             Cardinality({q \in CommaPositions(s) : q < p}) = k - 1
TokensOf(s) ==
    [k \in 1..(Cardinality(CommaPositions(s)) + 1) |->
        SubSeq(s, NthComma(s, k - 1) + 1, NthComma(s, k) - 1)]
PassThroughTokens(s) ==
    SelectSeq(TokensOf(s), LAMBDA t : t \notin Keywords /\ t # <<>>)

\* C8: for every option string, the filesystem data is exactly the tokens
\* that are neither keywords nor empty, verbatim, in encounter order and
\* comma-joined; it is None exactly when there is no such token.
C8_DataIsPassThroughTokens ==
    pc = "parsed" =>
        LET want == PassThroughTokens(opt.options)
        IN /\ parsed.data.some <=> (want # <<>>)
           /\ parsed.data.some =>
                 /\ TokensOf(parsed.data.val) = want
                 /\ \A i \in 1..Len(want) :
                        want[i] \notin Keywords /\ want[i] # <<>>

C8_Witness ==
    /\ pc = "parsed"
    /\ parsed.data.some
    /\ Len(TokensOf(opt.options)) = 3
    /\ TokensOf(opt.options)[2] \in Keywords
    /\ TokensOf(parsed.data.val) = << <<"r","o","x">>, <<"a","c","l">> >>

\* the UUID named by a UUID= / OLD_BLKID_UUID= specifier of two atoms
IsUuidSpec(dev) == StartsWith(dev, PFX_UUID) \/ StartsWith(dev, PFX_OLD_UUID)
WellFormedUuidSpec(dev) ==
    /\ IsUuidSpec(dev)
    /\ Len(dev) = 2
    /\ dev[2][1] \in {"uuid-hyphenated", "uuid-simple"}

\* C9: for a UUID= or OLD_BLKID_UUID= specifier the resolved devices are, as
\* a set, exactly the enumerated device nodes whose superblock reads well
\* with the target UUID, listed in enumeration order without repetition; a
\* device whose read fails is skipped and does not abort the scan.
C9_UuidLookupIsTheMatchingSet ==
    (WellFormedUuidSpec(opt.dev) /\ udev.ok
         /\ pc \notin {"cmd_mount", "start", "panicked"}) =>
        LET want == NodesWithUuid(opt.dev[2][2])
            got == block_devices_to_mount
        IN /\ ret.err \notin {"InvalidIdentity", "EnumerationFailed", "ProbeFailed"}
           /\ {got[i].dev : i \in 1..Len(got)} = want
           /\ Len(got) = Cardinality(want)
           /\ \A i \in 1..Len(got) : got[i] = disk[got[i].dev]
           /\ devices = Join([i \in 1..Len(got) |-> DevPath(got[i].dev)], COLON)
           /\ got = SelectSeq([i \in 1..Len(udev.scan) |->
                                   IF udev.scan[i] = 0 THEN NoSb ELSE disk[udev.scan[i]]],
                              LAMBDA sb : sb.ok /\ sb.uuid = opt.dev[2][2])

C9_Witness ==
    /\ StartsWith(opt.dev, PFX_OLD_UUID)
    /\ WellFormedUuidSpec(opt.dev)
    /\ pc = "check_locked"
    /\ Len(block_devices_to_mount) = 1
    /\ \E n \in Range(udev.scan) \ {0} : ~disk[n].ok
    /\ udev.scan[1] # 0 /\ ~disk[udev.scan[1]].ok

\* C10: the mount primitive is called at most once in a mount attempt; a
\* call of the mount invoker calls it exactly once; a non-zero status is
\* reported as MountFailed with the system error number, with no second call.
C10_MountOnceNoRetry ==
    /\ Len(mountCalls) <= 1
    /\ (Returned /\ opt.mountpoint.some /\ (ret.ok \/ ret.err = "MountFailed"))
           => Len(mountCalls) = 1
    /\ ret.err = "MountFailed" =>
           /\ ret.errno \in Errnos
           /\ Len(mountCalls) = 1
           /\ Returned
    /\ (Len(mountCalls) = 1 /\ ~ret.ok) => ret.err = "MountFailed"
    /\ (pc = "exit" /\ ret.err = "MountFailed") => exitCode = 1

C10_Witness ==
    /\ pc = "exit"
    /\ ret.err = "MountFailed"
    /\ ret.errno \in Errnos
    /\ Len(mountCalls) = 1
    /\ exitCode = 1

PolicyCallsWith(policy) ==
    Cardinality({i \in 1..Len(keyOps) :
                    keyOps[i].op = "unlock_policy" /\ keyOps[i].arg = policy})

\* C11: with the first superblock encrypted and locked, no successful
\* passphrase-file unlock and policy Fail, the attempt fails with
\* LockedFilesystem: it never prompts (Ask), never waits (Wait), never
\* reaches the mount step, and the command exits 1.
C11_FailPolicyIsFatal ==
    (opt.unlock_policy = "Fail" /\ FirstLocked /\ PastUnlock /\ ~FileSucceeded) =>
        /\ Returned
        /\ ret.err = "LockedFilesystem"
        /\ PolicyCallsWith("Ask") = 0
        /\ PolicyCallsWith("Wait") = 0
        /\ PolicyCallsWith("Fail") = 1
        /\ ~keyring
        /\ mountCalls = <<>>
        /\ pc = "exit" => exitCode = 1

C11_Witness ==
    /\ opt.unlock_policy = "Fail"
    /\ FirstLocked
    /\ FileFailed
    /\ opt.mountpoint.some
    /\ pc = "exit"
    /\ ret.err = "LockedFilesystem"
    /\ exitCode = 1

\* C12: a resolution that yields no member device is a NotFound failure on
\* every specifier path: the attempt returns before the encryption check,
\* with no key operation and no mount call; a well-formed UUID specifier that
\* matches no enumerated device ends so.
C12_EmptyResolutionIsNotFound ==
    /\ (Len(block_devices_to_mount) = 0
            /\ pc \notin {"cmd_mount", "start", "list_loop", "from_device",
                          "check_empty", "panicked"})
           => /\ Returned
              /\ ret.err \in ResolveErrors
              /\ keyOps = <<>>
              /\ ~keyring
              /\ mountCalls = <<>>
              /\ pc = "exit" => exitCode = 1
    /\ (WellFormedUuidSpec(opt.dev) /\ udev.ok /\ NodesWithUuid(opt.dev[2][2]) = {}
            /\ pc \notin {"cmd_mount", "start", "check_empty", "panicked"})
           => Returned /\ ret.err = "NotFound"
    /\ ret.err = "NotFound" =>
           (Len(block_devices_to_mount) = 0 /\ keyOps = <<>> /\ mountCalls = <<>>)

C12_Witness ==
    /\ WellFormedUuidSpec(opt.dev)
    /\ udev.ok
    /\ Len(udev.scan) >= 1
    /\ pc = "exit"
    /\ ret.err = "NotFound"
    /\ probes # <<>>
    /\ exitCode = 1

\* C13: for every parsed invocation, whatever its verbosity count, the
\* command returns an exit code: 0 exactly when cmd_mount_inner succeeded
\* and 1 on any fatal failure.
C13_ExitCodeForEveryInvocation ==
    /\ pc # "panicked"
    /\ pc = "exit" => exitCode = (IF ret.ok THEN 0 ELSE 1)

\* the sum of the flag values of a set of keyword-table entries
RECURSIVE SumFlags(_)
SumFlags(entries) ==
    IF entries = {} THEN 0
    ELSE LET e == CHOOSE x \in entries : TRUE
         IN e[2] + SumFlags(entries \ {e})

\* the table entries whose keyword occurs among the tokens of s; the flag
\* values are distinct bits, so their OR is the sum over this set
MatchedEntries(s) == {e \in KeywordTable : e[1] \in Range(TokensOf(s))}

\* C14: for every option string the flag bitmask is the OR of the flag
\* values of the keywords that occur in it (rw and the empty token give 0),
\* whatever their order and repetition and whatever unknown tokens stand
\* between them; the empty string gives 0 and no data.
C14_FlagsAreOrOfKeywords ==
    pc = "parsed" =>
        /\ parsed.flags = SumFlags(MatchedEntries(opt.options))
        /\ opt.options = <<>> => (parsed.flags = 0 /\ parsed.data = None)

C14_Witness ==
    /\ pc = "parsed"
    /\ TokensOf(opt.options) = << <<"r","o">>, <<"x">>, <<"r","o">> >>
    /\ parsed.flags = MS_RDONLY
    /\ parsed.data = Some(<<"x">>)

PolicySucceeded == \E i \in 1..Len(keyOps) :
                       keyOps[i].op = "unlock_policy" /\ keyOps[i].outcome = "ok"

\* C15: the mount step is reached, and the mount primitive called, only
\* after the first superblock was found not encrypted-and-locked, or the
\* passphrase file unlocked it, or the unlock policy was applied with
\* success: never while the filesystem is still known to be locked.
C15_MountOnlyWhenUnlocked ==
    (pc = "mount_step" \/ mountCalls # <<>>) =>
        /\ Len(block_devices_to_mount) > 0
        /\ ~FirstLocked \/ FileSucceeded \/ PolicySucceeded
        /\ FirstLocked => keyring

C15_Witness ==
    /\ mountCalls # <<>>
    /\ FirstLocked
    /\ FileFailed
    /\ PolicySucceeded
    /\ opt.unlock_policy = "Wait"

AbortErrors == ResolveErrors \cup {"LockedFilesystem"}

\* C16: a malformed UUID, an unavailable enumeration, a failed probe of a
\* listed device, an empty resolution and an unlock-policy failure each end
\* cmd_mount_inner at that step: the only step after it is cmd_mount's exit
\* with code 1, no probe, scan, key operation or mount call follows, and the
\* mount primitive was not called before it either.
C16_FailureAborts ==
    /\ [](ret.err \in AbortErrors =>
              /\ Returned
              /\ mountCalls = <<>>
              /\ ret.err \in ResolveErrors => keyOps = <<>>
              /\ pc = "exit" => exitCode = 1)
    /\ []((IsUuidSpec(opt.dev) /\ ~WellFormedUuidSpec(opt.dev)
               /\ pc \notin {"cmd_mount", "start", "panicked"})
              => ret.err = "InvalidIdentity")
    /\ []((~IsList(opt.dev) /\ (IsUuidSpec(opt.dev) => WellFormedUuidSpec(opt.dev))
               /\ ~udev.ok /\ pc \notin {"cmd_mount", "start", "panicked"})
              => ret.err = "EnumerationFailed")
    /\ [][ret.err \in AbortErrors =>
              /\ pc = "returned"
              /\ pc' = "exit"
              /\ exitCode' = 1
              /\ UNCHANGED <<ret, probes, scans, keyOps, keyring, mountCalls,
                             devices, block_devices_to_mount>>]_vars

C16_Witness ==
    /\ pc = "exit"
    /\ ret.err = "EnumerationFailed"
    /\ IsBare(opt.dev)
    /\ exitCode = 1
    /\ mountCalls = <<>>

\* the first segment of a list whose superblock read fails, 0 when none does
FirstBadSegment(segs) ==
    IF \A i \in 1..Len(segs) : ReadSuperSilent(segs[i]).ok THEN 0
    ELSE CHOOSE i \in 1..Len(segs) :
             /\ ~ReadSuperSilent(segs[i]).ok
             /\ \A j \in 1..(i - 1) : ReadSuperSilent(segs[j]).ok

\* C17: on the colon-joined list path the segments are probed in listed
\* order; the first failed probe ends the attempt: no later segment is
\* probed, no enumeration is made, no key operation and no mount call follow.
C17_ListProbeFailureIsFatal ==
    IsList(opt.dev) =>
        LET segs == Split(opt.dev, COLON)
            bad == FirstBadSegment(segs)
        IN /\ Len(probes) <= Len(segs)
           /\ \A i \in 1..Len(probes) : probes[i] = segs[i]
           /\ scans = 0
           /\ bad # 0 =>
                 /\ Len(probes) <= bad
                 /\ Len(block_devices_to_mount) < bad
                 /\ keyOps = <<>>
                 /\ mountCalls = <<>>
                 /\ pc \notin {"cmd_mount", "start", "list_loop", "panicked"}
                        => /\ Returned
                           /\ ret.err = "ProbeFailed"
                           /\ Len(probes) = bad

C17_Witness ==
    /\ IsList(opt.dev)
    /\ Len(Split(opt.dev, COLON)) = 2
    /\ FirstBadSegment(Split(opt.dev, COLON)) = 1
    /\ ReadSuperSilent(Split(opt.dev, COLON)[2]).ok
    /\ udev.ok
    /\ probes = <<Split(opt.dev, COLON)[1]>>
    /\ pc = "exit"
    /\ exitCode = 1

\* C18: a UUID= or OLD_BLKID_UUID= specifier whose remainder is not
\* well-formed UUID text fails with InvalidIdentity before any device
\* enumeration and any superblock probe.
C18_MalformedUuidFailsFirst ==
    (IsUuidSpec(opt.dev) /\ ~WellFormedUuidSpec(opt.dev)
         /\ pc \notin {"cmd_mount", "start", "panicked"}) =>
        /\ Returned
        /\ ret.err = "InvalidIdentity"
        /\ scans = 0
        /\ probes = <<>>
        /\ block_devices_to_mount = <<>>

C18_Witness ==
    /\ StartsWith(opt.dev, PFX_OLD_UUID)
    /\ ~WellFormedUuidSpec(opt.dev)
    /\ udev.ok
    /\ Len(udev.scan) >= 1
    /\ pc = "exit"
    /\ ret.err = "InvalidIdentity"
    /\ exitCode = 1

\* ------------------------------------------------------------- progress
\* every step but the return of the Wait policy: the code is sequential and
\* each of its calls (probe, scan, key file, Fail/Ask policy, mount) returns
NextNonBlocking ==
    \/ CmdMountBegin
    \/ ResolveUuid
    \/ ResolveOldUuid
    \/ ResolveList
    \/ ProbeListSegment
    \/ ResolveDevice
    \/ ResolveDeviceUuid
    \/ CheckEmpty
    \/ CheckLocked
    \/ PassphraseFile
    \/ UnlockPolicyStep
    \/ MountStep
    \/ CmdMountExit

\* one specifier of each kind, every key-file / policy choice, every world
InitProgress ==
    /\ pc = "cmd_mount"
    /\ InitLocals
    /\ opt \in [dev : {<<PFX_UUID, <<"uuid-hyphenated", 1>> >>,
                       <<PFX_OLD_UUID, <<"uuid-simple", 1>> >>,
                       <<PFX_UUID, <<"uuid-malformed", 0>> >>,
                       DevPath(1),
                       Join(<<DevPath(1), DevPath(NumDevs)>>, COLON)},
                passphrase_file : {None, Some(<<"keyfile">>)},
                unlock_policy : Policies,
                mountpoint : {None, Some(<<"/mnt">>)},
                options : {<<>>},
                verbose : {0, 2}]
    /\ udev \in {FullScan, [ok |-> FALSE, scan |-> <<>>]}
    /\ \E d \in Disks(BOOLEAN) : disk = WithDev(d)

SpecFair == InitProgress /\ [][Next]_vars /\ WF_vars(NextNonBlocking)

\* C19: when every call but the Wait policy returns, a mount attempt that
\* has entered cmd_mount_inner reaches the exit with code 0 or 1 unless it
\* is waiting in the Wait policy, and goes on to the exit once the wait
\* returns; the wait is entered only under policy Wait, for an encrypted and
\* locked first superblock that no passphrase file unlocked.
C19_OnlyWaitBlocks ==
    /\ [](pc = "waiting" =>
              /\ opt.unlock_policy = "Wait"
              /\ FirstLocked
              /\ ~FileSucceeded
              /\ PolicyCallsWith("Wait") = 1)
    /\ [](pc = "exit" => exitCode \in {0, 1})
    /\ (pc = "start") ~> (pc = "exit" \/ pc = "waiting")
    /\ (pc = "mount_step") ~> (pc = "exit")

C19_Witness ==
    /\ pc = "waiting"
    /\ opt.unlock_policy = "Wait"
    /\ FirstLocked
    /\ FileFailed
    /\ ~keyring

====
